---- MODULE Spec2Model ----
(***************************************************************************)
(* The crawl-and-parse pipeline of app/main.py: the three triggers of      *)
(* crawl_tfgs, the crawl cycle itself (drop, category fetch, game index,   *)
(* pooled page fetch, parse, write, commit), the Pony session it runs in,  *)
(* and parse_game_page / the listing cap as pure functions.                *)
(***************************************************************************)
EXTENDS Integers, Sequences, FiniteSets, TLC

VARIABLES
    catalog,   \* rows committed to the database: what any reader reads
    session,   \* Pony's thread-local db_session: nesting depth and unflushed rows
    cyc,       \* locals and position of the crawl_tfgs coroutine each trigger runs
    raised,    \* exception that ended the last crawl_tfgs call made since the
               \* latest cycle began ("none": no call ended, or it returned)
    epoch,     \* number of crawl cycles that got past drop_all_tables
    arg,       \* input handed to a function applied on its own
    ret        \* what that function returned

vars == <<catalog, session, cyc, raised, epoch, arg, ret>>

----------------------------------------------------------------------------
(* Bounds.  Cap and PoolLimit stand for the two literals 100 of crawl_tfgs *)
(* (main.py:732 and main.py:745), scaled down.  MaxCycles caps the number  *)
(* of cycles begun while no db_session is open, MaxBlocks the number of    *)
(* review blocks on a page, MaxDownloads the number of children of the     *)
(* downloads element.                                                      *)

Cap == 2
PoolLimit == 2
MaxCycles == 1
MaxBlocks == 3
MaxDownloads == 3

----------------------------------------------------------------------------
(* Generic helpers.                                                        *)

Min(a, b) == IF a <= b THEN a ELSE b

Range(s) == {s[i] : i \in DOMAIN s}

Perms(S) ==
    {p \in [1..Cardinality(S) -> S] : \A i, j \in DOMAIN p : i # j => p[i] # p[j]}

Take(s, n) == SubSeq(s, 1, Min(n, Len(s)))

Reverse(s) == [i \in 1..Len(s) |-> s[Len(s) + 1 - i]]

----------------------------------------------------------------------------
(* Game URLs.  Every game link is BASE_URL + "/?module=viewgame&id=<id>",  *)
(* so two links compare as the decimal digit strings of their ids compare. *)

Triggers == {"hourly_a", "hourly_b", "post"}

GameIds == 9 .. (9 + Cap)

RECURSIVE Digits(_)
Digits(n) == IF n < 10 THEN <<n>> ELSE Digits(n \div 10) \o <<n % 10>>

RECURSIVE ParseInt(_)
ParseInt(d) ==
    IF Len(d) = 1 THEN d[1]
    ELSE 10 * ParseInt(SubSeq(d, 1, Len(d) - 1)) + d[Len(d)]

Url(game_id) == Digits(game_id)

RECURSIVE StrLess(_, _)
StrLess(a, b) ==
    IF a = <<>> THEN b # <<>>
    ELSE IF b = <<>> THEN FALSE
    ELSE IF a[1] # b[1] THEN a[1] < b[1]
    ELSE StrLess(Tail(a), Tail(b))

NumLess(a, b) == ParseInt(a) < ParseInt(b)

UrlLess(a, b) == StrLess(a, b)

RECURSIVE Insert(_, _)
Insert(u, s) ==
    IF s = <<>> THEN <<u>>
    ELSE IF UrlLess(s[1], u) THEN <<s[1]>> \o Insert(u, Tail(s))
    ELSE <<u>> \o s

RECURSIVE Sorted(_)
Sorted(s) == IF s = <<>> THEN <<>> ELSE Insert(s[1], Sorted(Tail(s)))

Selected(game_links) == Take(Sorted(game_links), Cap)

RECURSIVE LinkTasks(_)
LinkTasks(urls) ==
    IF urls = <<>> THEN <<>>
    ELSE << [game_id |-> ParseInt(urls[1]), typ |-> "game"],
            [game_id |-> ParseInt(urls[1]), typ |-> "reviews"] >>
         \o LinkTasks(Tail(urls))

AllLinks(game_links) == LinkTasks(Selected(game_links))

\* every order in which the result table can list a set of distinct games
LinkLists ==
    UNION {{[i \in DOMAIN p |-> Url(p[i])] : p \in Perms(S)} : S \in SUBSET GameIds}

----------------------------------------------------------------------------
(* Database rows.  A row is one entity instance; ep is the crawl cycle     *)
(* that created it.  name is used by author rows, n by review rows.        *)

Row(k, id, name, n, ep) == [k |-> k, id |-> id, name |-> name, n |-> n, ep |-> ep]

GameRows(rows) == {r \in rows : r.k = "game"}

GameIdsIn(rows) == {r.id : r \in GameRows(rows)}

\* GameAuthor.get(name=author).id inside the try of main.py:550-556:
\* 0 stands for the failed lookup (no row, or several rows), which the
\* bare except turns into "return".
AuthorIdByName(rows, author) ==
    LET hit == {r \in rows : r.k = "author" /\ r.name = author}
    IN  IF Cardinality(hit) = 1 THEN (CHOOSE r \in hit : TRUE).id ELSE 0

----------------------------------------------------------------------------
(* Pages.  A detail page is what parse_game_page reads of it:              *)
(*   title     the viewgamecontenttitle element exists                     *)
(*   links     the <a> elements of the byline: slug of the text and the    *)
(*             number after "u=" in the href (0: the href holds none)      *)
(*   text      the byline as free text, already stripped and slugged       *)
(*   attrs     the attribute container exists                              *)
(*   likes     the Likes value is an integer literal                       *)
(*   dates     Release Date and Last Update match one of the two formats   *)
(*   version   the value of the Version row                                *)
(*   has_dl    the element with id "downloads" exists                      *)
(*   dl        its children, in document order                             *)
(* A reviews page is the sequence of its reviewcontent blocks, newest      *)
(* first; a block is                                                       *)
(*   who       the text after "Review by" (identifies the block)           *)
(*   n         number of non-blank lines                                   *)
(*   by        "Review by" occurs in the first line                        *)
(*   ver       the second line matches the "Version reviewed" pattern      *)
(*   date      format of the date in it: "iso", "us" or "bad"              *)

Ret(tag, at, id, authors, versions, reviews) ==
    [tag |-> tag, at |-> at, id |-> id, authors |-> authors,
     versions |-> versions, reviews |-> reviews]

RaiseAt(at) == Ret("raise", at, 0, {}, {}, <<>>)

None == Ret("none", "", 0, {}, {}, <<>>)

\* main.py:541-548: one dict entry per link whose href yields an integer,
\* a later link with the same slug overwriting an earlier one
LinkAuthors(links) ==
    LET ok == {i \in DOMAIN links : links[i].uid # 0}
        last(s) == CHOOSE i \in ok : links[i].slug = s
                       /\ \A j \in ok : links[j].slug = s => j <= i
    IN  {<<links[i].slug, links[last(links[i].slug)].uid>> : i \in ok}

\* main.py:550-556
TextAuthorsSkipNever(rows, text) == {<<text, AuthorIdByName(rows, text)>>}

TextAuthors(rows, text) ==
    IF AuthorIdByName(rows, text) = 0 THEN {}
    ELSE {<<text, AuthorIdByName(rows, text)>>}

\* main.py:623-638.  cursor "unbound": no version header seen yet, the
\* local name version is not assigned and reading it raises.
AddLink(versions, v, link) ==
    IF \E e \in versions : e[1] = v
    THEN {IF e[1] = v THEN <<v, Append(e[2], link)>> ELSE e : e \in versions}
    ELSE versions \cup {<<v, <<link>>>>}

RECURSIVE Downloads(_, _, _, _)
Downloads(blocks, cursor, top, versions) ==
    IF blocks = <<>> THEN [ok |-> TRUE, versions |-> versions]
    ELSE LET b == blocks[1] IN
         IF b.name = "center"
         THEN Downloads(Tail(blocks), b.text, top, versions)
         ELSE IF b.name = "div"
         THEN IF cursor = "unbound" THEN [ok |-> FALSE, versions |-> versions]
              ELSE Downloads(Tail(blocks), cursor, top,
                             AddLink(versions, IF cursor = "" THEN top ELSE cursor, b.text))
         ELSE Downloads(Tail(blocks), cursor, top, versions)

\* main.py:655-679 over the reversed blocks, i the enumerate index
RECURSIVE Reviews(_, _, _)
Reviews(blocks, i, acc) ==
    IF blocks = <<>> THEN [ok |-> TRUE, reviews |-> acc]
    ELSE LET b == blocks[1]
             next(a) == Reviews(Tail(blocks), i + 1, a)
         IN  IF b.n = 0 THEN [ok |-> FALSE, reviews |-> acc]
             ELSE IF ~b.by THEN next(acc)
             ELSE IF b.n = 1 THEN [ok |-> FALSE, reviews |-> acc]
             ELSE IF ~b.ver THEN next(acc)
             ELSE IF b.date = "bad" THEN [ok |-> FALSE, reviews |-> acc]
             ELSE IF b.n = 2 THEN next(acc)
             ELSE next(Append(acc, [id |-> i, author |-> b.who, date |-> b.date]))

\* main.py:524-681
parse_game_page(game_id, html_game, html_reviews, rows) ==
    IF ~html_game.title THEN RaiseAt("title")
    ELSE
    LET authors == IF html_game.links # <<>> THEN LinkAuthors(html_game.links)
                   ELSE TextAuthors(rows, html_game.text)
    IN
    IF html_game.links = <<>> /\ authors = {} THEN None
    ELSE IF ~html_game.attrs THEN RaiseAt("attrs")
    ELSE IF ~html_game.likes THEN RaiseAt("likes")
    ELSE IF ~html_game.has_dl THEN RaiseAt("downloads")
    ELSE
    LET d == Downloads(html_game.dl, "unbound", html_game.version, {}) IN
    IF ~d.ok THEN RaiseAt("version")
    ELSE
    LET r == Reviews(Reverse(html_reviews), 0, <<>>) IN
    IF ~r.ok THEN RaiseAt("reviews")
    ELSE IF ~html_game.dates THEN RaiseAt("dates")
    ELSE Ret("game", "", game_id, authors, d.versions, r.reviews)

----------------------------------------------------------------------------
(* Writing one parsed game: pgame_to_db_game, main.py:392-479.             *)
(* The result is the session's rows afterwards, or ok = FALSE when an      *)
(* entity constructor raises: a GameAuthor whose primary key is taken by   *)
(* another name, or a Game whose Required engine was not fetched.          *)

AuthorConflict(game, rows) ==
    \/ \E a \in game.authors : \E r \in rows :
           r.k = "author" /\ r.id = a[2] /\ r.name # a[1]
    \/ \E a, b \in game.authors : a[2] = b[2] /\ a[1] # b[1]

EntityRows(game, ep) ==
    {Row("game", game.id, "", 0, ep)}
    \cup {Row("author", a[2], a[1], 0, ep) : a \in game.authors}
    \cup {Row("version", game.id, v[1], Len(v[2]), ep) : v \in game.versions}
    \cup {Row("review", game.id, "", i, ep) : i \in DOMAIN game.reviews}

pgame_to_db_game(game, rows, ep) ==
    IF game.id \in GameIdsIn(rows) THEN [ok |-> TRUE, rows |-> rows, created |-> FALSE]
    ELSE IF AuthorConflict(game, rows) THEN [ok |-> FALSE, rows |-> rows, created |-> FALSE]
    ELSE IF ~\E r \in rows : r.k = "engine" THEN [ok |-> FALSE, rows |-> rows, created |-> FALSE]
    ELSE [ok |-> TRUE,
          rows |-> rows \cup {r \in EntityRows(game, ep) :
                                 ~\E q \in rows : q.k = "author" /\ r.k = "author" /\ q.id = r.id},
          created |-> TRUE]

\* "if not game: continue", main.py:763-764
SkippedNever(game) == FALSE

Skipped(game) == game.tag = "none"

\* main.py:762-770
RECURSIVE WriteAll(_, _, _, _)
WriteAll(games, rows, ep, written) ==
    IF games = <<>> THEN [ok |-> TRUE, rows |-> rows, written |-> written]
    ELSE IF Skipped(games[1]) THEN WriteAll(Tail(games), rows, ep, written)
    ELSE LET w == pgame_to_db_game(games[1], rows, ep) IN
         IF ~w.ok THEN [ok |-> FALSE, rows |-> rows, written |-> written]
         ELSE WriteAll(Tail(games), w.rows, ep,
                       IF w.created THEN Append(written, games[1].id) ELSE written)

----------------------------------------------------------------------------
(* What the upstream site can answer during a crawl.                       *)

Link(slug, uid) == [slug |-> slug, uid |-> uid]

Center(text) == [name |-> "center", text |-> text]

Div(link) == [name |-> "div", text |-> link]

Block(who, n, by, ver, date) == [who |-> who, n |-> n, by |-> by, ver |-> ver, date |-> date]

BasePage ==
    [title |-> TRUE, links |-> <<Link("alice", 1)>>, text |-> "", attrs |-> TRUE,
     likes |-> TRUE, dates |-> TRUE, version |-> "1.0", has_dl |-> TRUE,
     dl |-> <<Center("2.0"), Div("f1")>>]

TextPage == [BasePage EXCEPT !.links = <<>>, !.text = "alice"]

NoTitlePage == [BasePage EXCEPT !.title = FALSE]

NoPage == [BasePage EXCEPT !.title = FALSE, !.links = <<>>, !.dl = <<>>]

CrawlPages == {BasePage, TextPage, NoTitlePage}

CrawlReviews == {<<Block(1, 3, TRUE, TRUE, "iso")>>}

Html(page, blocks) == [page |-> page, blocks |-> blocks]

NoHtml == Html(NoPage, <<>>)

Answers(typ) ==
    IF typ = "game" THEN {Html(p, <<>>) : p \in CrawlPages}
    ELSE {Html(NoPage, b) : b \in CrawlReviews}

\* fetch_all_categories, main.py:509-515: each taxonomy is fetched on its
\* own and a failed one contributes no entity
TaxOutcomes ==
    { [author |-> {<<1, "alice">>}, engine |-> TRUE],
      [author |-> {},               engine |-> TRUE],
      [author |-> {<<1, "alice">>}, engine |-> FALSE] }

TaxRows(tax, ep) ==
    {Row("author", a[1], a[2], 0, ep) : a \in tax.author}
    \cup (IF tax.engine THEN {Row("engine", 1, "e", 0, ep)} ELSE {})

\* a catalog left by an earlier run of the service
SeedCatalog ==
    TaxRows([author |-> {<<1, "alice">>}, engine |-> TRUE], 0)
    \cup EntityRows(Ret("game", "", 9, {<<"alice", 1>>}, {<<"2.0", <<"f1">>>>},
                        <<[id |-> 0, author |-> 1, date |-> "iso"]>>), 0)

----------------------------------------------------------------------------
(* The crawl cycle.  crawl_tfgs is a coroutine on the one event-loop       *)
(* thread; it gives up control only at its awaits, so each action below is *)
(* the code between two awaits (the synchronous tail after the last fetch  *)
(* is split into parse, write and commit).                                 *)

Idle ==
    [pc |-> "idle", all_links |-> <<>>, tasks |-> <<>>, result |-> <<>>,
     games |-> <<>>, written |-> <<>>]

NoArg ==
    [fn |-> "", game_links |-> <<>>, game_id |-> 0, html_game |-> NoPage,
     html_reviews |-> <<>>, rows |-> {}]

NoRet == [fn |-> "", links |-> <<>>, game |-> None]

Running(t) == cyc[t].pc # "idle"

InFlight(t) == Cardinality({k \in DOMAIN cyc[t].tasks : cyc[t].tasks[k] = "inflight"})

\* drop_all_tables and create_tables open a db_session(ddl=True) of their
\* own; Pony refuses to open one while the thread already is in a
\* db_session and raises TransactionError (main.py:685-686 called while
\* another crawl_tfgs is suspended inside its "with db_session")
DdlAllowedAlways == TRUE

DdlAllowed == session.depth = 0

\* leaving "with db_session" (main.py:688): the outermost exit commits on a
\* normal exit and rolls back on an exception
ExitCommit ==
    IF session.depth = 1
    THEN /\ catalog' = session.rows
         /\ session' = [depth |-> 0, rows |-> {}]
    ELSE /\ catalog' = catalog
         /\ session' = [session EXCEPT !.depth = @ - 1]

ExitRollback ==
    /\ catalog' = catalog
    /\ session' = IF session.depth = 1 THEN [depth |-> 0, rows |-> {}]
                  ELSE [session EXCEPT !.depth = @ - 1]

\* an exception leaves crawl_tfgs from inside the with block
Fail(t, exc) ==
    /\ ExitRollback
    /\ cyc' = [cyc EXCEPT ![t] = Idle]
    /\ raised' = exc
    /\ UNCHANGED <<epoch, arg, ret>>

\* a trigger calls crawl_tfgs (main.py:311-313, 318-320, 776-780), which
\* runs to its first await: main.py:685-699
Start(t) ==
    /\ cyc[t].pc = "idle"
    /\ IF DdlAllowed
       THEN /\ epoch < MaxCycles \/ session.depth > 0
            /\ catalog' = {}
            /\ epoch' = epoch + 1
            /\ session' = [depth |-> session.depth + 1, rows |-> {}]
            /\ cyc' = [cyc EXCEPT ![t].pc = "categories"]
            /\ raised' = "none"
       ELSE /\ raised' = "TransactionError"
            /\ UNCHANGED <<catalog, session, cyc, epoch>>
    /\ UNCHANGED <<arg, ret>>

\* fetch_all_categories returns, main.py:690-709
Categories(t) ==
    /\ cyc[t].pc = "categories"
    /\ \E tax \in TaxOutcomes :
           session' = [session EXCEPT !.rows = @ \cup TaxRows(tax, epoch)]
    /\ cyc' = [cyc EXCEPT ![t].pc = "index"]
    /\ UNCHANGED <<catalog, raised, epoch, arg, ret>>

\* the game index answers, main.py:710-751
Index(t) ==
    /\ cyc[t].pc = "index"
    /\ \E status \in {200, 500} :
          IF status # 200 THEN Fail(t, "Not status code 200")
          ELSE \E game_links \in LinkLists :
                 /\ cyc' = [cyc EXCEPT ![t] =
                       [@ EXCEPT !.pc = "fetch",
                                 !.all_links = AllLinks(game_links),
                                 !.tasks = [k \in DOMAIN AllLinks(game_links) |-> "queued"],
                                 !.result = [k \in DOMAIN AllLinks(game_links) |-> NoHtml]]]
                 /\ UNCHANGED <<catalog, session, raised, epoch, arg, ret>>

\* TCPConnector(limit=100), main.py:745: a request takes a connection only
\* while fewer than limit are in use
PoolFreeAlways(t) == TRUE

PoolFree(t) == InFlight(t) < PoolLimit

\* fetch_page_raw opens its request, main.py:519
Acquire(t, k) ==
    /\ cyc[t].pc = "fetch"
    /\ k \in DOMAIN cyc[t].tasks
    /\ cyc[t].tasks[k] = "queued"
    /\ PoolFree(t)
    /\ cyc' = [cyc EXCEPT ![t].tasks[k] = "inflight"]
    /\ UNCHANGED <<catalog, session, raised, epoch, arg, ret>>

\* fetch_page_raw returns and the loop stores the page, main.py:520-521, 752-753
Complete(t, k) ==
    /\ cyc[t].pc = "fetch"
    /\ k \in DOMAIN cyc[t].tasks
    /\ cyc[t].tasks[k] = "inflight"
    /\ \E html \in Answers(cyc[t].all_links[k].typ) :
           cyc' = [cyc EXCEPT ![t].tasks[k] = "done", ![t].result[k] = html]
    /\ UNCHANGED <<catalog, session, raised, epoch, arg, ret>>

\* the request fails and "await task" raises, main.py:752
TransportError(t, k) ==
    /\ cyc[t].pc = "fetch"
    /\ k \in DOMAIN cyc[t].tasks
    /\ cyc[t].tasks[k] = "inflight"
    /\ Fail(t, "transport")

\* result[game_id][typ], main.py:753
ResultOf(t, game_id, typ) ==
    LET k == CHOOSE k \in DOMAIN cyc[t].all_links :
                 cyc[t].all_links[k] = [game_id |-> game_id, typ |-> typ]
    IN  cyc[t].result[k]

\* the parse loop, main.py:755-759, over result in the order of its keys
Parse(t) ==
    /\ cyc[t].pc = "fetch"
    /\ \A k \in DOMAIN cyc[t].tasks : cyc[t].tasks[k] = "done"
    /\ \E order \in Perms({l.game_id : l \in Range(cyc[t].all_links)}) :
         LET games == [i \in DOMAIN order |->
                          parse_game_page(order[i],
                                          ResultOf(t, order[i], "game").page,
                                          ResultOf(t, order[i], "reviews").blocks,
                                          session.rows)]
         IN  IF \E i \in DOMAIN games : games[i].tag = "raise"
             THEN Fail(t, "parse")
             ELSE /\ cyc' = [cyc EXCEPT ![t].pc = "write", ![t].games = games]
                  /\ UNCHANGED <<catalog, session, raised, epoch, arg, ret>>

\* the write loop, main.py:761-772
Write(t) ==
    /\ cyc[t].pc = "write"
    /\ LET w == WriteAll(cyc[t].games, session.rows, epoch, <<>>) IN
         IF ~w.ok THEN Fail(t, "write")
         ELSE /\ session' = [session EXCEPT !.rows = w.rows]
              /\ cyc' = [cyc EXCEPT ![t].pc = "commit", ![t].written = w.written]
              /\ UNCHANGED <<catalog, raised, epoch, arg, ret>>

\* the with block ends and crawl_tfgs returns, main.py:688, 772
Commit(t) ==
    /\ cyc[t].pc = "commit"
    /\ ExitCommit
    /\ cyc' = [cyc EXCEPT ![t] = Idle]
    /\ raised' = "none"
    /\ UNCHANGED <<epoch, arg, ret>>

Init ==
    /\ catalog = SeedCatalog
    /\ session = [depth |-> 0, rows |-> {}]
    /\ cyc = [t \in Triggers |-> Idle]
    /\ raised = "none"
    /\ epoch = 0
    /\ arg = NoArg
    /\ ret = NoRet

Next ==
    \E t \in Triggers :
        \/ Start(t)
        \/ Categories(t)
        \/ Index(t)
        \/ \E k \in 1 .. (2 * Cap) : Acquire(t, k) \/ Complete(t, k) \/ TransportError(t, k)
        \/ Parse(t)
        \/ Write(t)
        \/ Commit(t)

Spec == Init /\ [][Next]_vars

----------------------------------------------------------------------------
(* The listing cap and parse_game_page applied on their own to drawn       *)
(* inputs.                                                                 *)

\* the shapes a reviewcontent block can have (who is filled in per page)
BlockKinds ==
    { Block(0, 3, TRUE, TRUE, "iso"),      \* well formed, first date format
      Block(0, 3, TRUE, TRUE, "us"),       \* well formed, second date format
      Block(0, 0, FALSE, FALSE, "bad"),    \* no non-blank line
      Block(0, 1, TRUE, FALSE, "bad"),     \* the "Review by" line only
      Block(0, 3, FALSE, TRUE, "iso"),     \* no "Review by" in the first line
      Block(0, 3, TRUE, FALSE, "iso"),     \* second line does not match
      Block(0, 3, TRUE, TRUE, "bad"),      \* date in neither format
      Block(0, 2, TRUE, TRUE, "iso") }     \* nothing after the two header lines

WellFormed(b) == b.n >= 3 /\ b.by /\ b.ver /\ b.date # "bad"

ReviewPages ==
    UNION {{[i \in 1..n |-> [kinds[i] EXCEPT !.who = i]] : kinds \in [1..n -> BlockKinds]}
           : n \in 0..MaxBlocks}

Bylines ==
    { [links |-> <<Link("alice", 1)>>, text |-> ""],
      [links |-> <<Link("alice", 0)>>, text |-> ""],
      [links |-> <<Link("alice", 0), Link("bob", 2)>>, text |-> ""],
      [links |-> <<Link("alice", 0), Link("bob", 0)>>, text |-> ""],
      [links |-> <<Link("alice", 1), Link("alice", 2)>>, text |-> ""],
      [links |-> <<>>, text |-> "alice"],
      [links |-> <<>>, text |-> "zed"] }

Faults ==
    { BasePage,
      [BasePage EXCEPT !.title = FALSE],
      [BasePage EXCEPT !.attrs = FALSE],
      [BasePage EXCEPT !.likes = FALSE],
      [BasePage EXCEPT !.dates = FALSE],
      [BasePage EXCEPT !.has_dl = FALSE, !.dl = <<>>] }

\* the children the downloads element can have (a file block's link is
\* filled in per page): version headers, one of them with no text after
\* "Version:", file blocks, and other nodes
DownloadKinds == {Center("2.0"), Center("3.0"), Center(""), Div(""), [name |-> "br", text |-> ""]}

DownloadPages ==
    UNION {{[BasePage EXCEPT !.dl = [i \in 1..n |-> IF kinds[i].name = "div" THEN Div(ToString(i)) ELSE kinds[i]]]
               : kinds \in [1..n -> DownloadKinds]}
           : n \in 0..MaxDownloads}

ParsePages == {[f EXCEPT !.links = b.links, !.text = b.text] : f \in Faults, b \in Bylines}

AuthorTables == {{}, TaxRows([author |-> {<<1, "alice">>}, engine |-> TRUE], 1)}

ParseArgs ==
    {[NoArg EXCEPT !.fn = "parse", !.game_id = 9, !.html_game = p,
                   !.html_reviews = <<Block(1, 3, TRUE, TRUE, "iso")>>, !.rows = rows]
        : p \in ParsePages, rows \in AuthorTables}
    \cup
    {[NoArg EXCEPT !.fn = "parse", !.game_id = 9, !.html_game = BasePage,
                   !.html_reviews = r, !.rows = {}]
        : r \in ReviewPages}
    \cup
    {[NoArg EXCEPT !.fn = "parse", !.game_id = 9, !.html_game = p,
                   !.html_reviews = <<>>, !.rows = {}]
        : p \in DownloadPages}

SelectArgs == {[NoArg EXCEPT !.fn = "select", !.game_links = l] : l \in LinkLists}

\* sorted(game_links)[:100] and the all_links loop, main.py:731-741
ApplySelect ==
    /\ arg.fn = "select"
    /\ ret.fn = ""
    /\ ret' = [NoRet EXCEPT !.fn = "select", !.links = AllLinks(arg.game_links)]
    /\ UNCHANGED <<catalog, session, cyc, raised, epoch, arg>>

\* parse_game_page, main.py:524-681
ApplyParse ==
    /\ arg.fn = "parse"
    /\ ret.fn = ""
    /\ ret' = [NoRet EXCEPT !.fn = "parse",
                  !.game = parse_game_page(arg.game_id, arg.html_game,
                                           arg.html_reviews, arg.rows)]
    /\ UNCHANGED <<catalog, session, cyc, raised, epoch, arg>>

FnInit ==
    /\ catalog = {}
    /\ session = [depth |-> 0, rows |-> {}]
    /\ cyc = [t \in Triggers |-> Idle]
    /\ raised = "none"
    /\ epoch = 0
    /\ arg \in SelectArgs \cup ParseArgs
    /\ ret = NoRet

FnNext == ApplySelect \/ ApplyParse

FnSpec == FnInit /\ [][FnNext]_vars

----------------------------------------------------------------------------
(* The page-fetch phase on its own: crawl_tfgs has just submitted its      *)
(* fetches (main.py:747-751).  The event loop runs every coroutine that    *)
(* can continue, and every request that was opened is answered or fails.   *)

FetchInit ==
    /\ catalog = {}
    /\ session = [depth |-> 1, rows |-> TaxRows([author |-> {<<1, "alice">>}, engine |-> TRUE], 1)]
    /\ \E t \in Triggers : \E game_links \in LinkLists :
          cyc = [u \in Triggers |->
                    IF u # t THEN Idle
                    ELSE [Idle EXCEPT !.pc = "fetch",
                                      !.all_links = AllLinks(game_links),
                                      !.tasks = [k \in DOMAIN AllLinks(game_links) |-> "queued"],
                                      !.result = [k \in DOMAIN AllLinks(game_links) |-> NoHtml]]]
    /\ raised = "none"
    /\ epoch = 1
    /\ arg = NoArg
    /\ ret = NoRet

FetchStep == \E t \in Triggers : \E k \in 1 .. (2 * Cap) :
                 Acquire(t, k) \/ Complete(t, k) \/ TransportError(t, k)

ParseStep == \E t \in Triggers : Parse(t)

FetchNext == FetchStep \/ ParseStep

FetchSpec == FetchInit /\ [][FetchNext]_vars /\ WF_vars(FetchStep) /\ WF_vars(ParseStep)

----------------------------------------------------------------------------
(* Properties.                                                             *)

AnyRunning == \E t \in Triggers : Running(t)

Accepted(t) == {g.id : g \in {x \in Range(cyc[t].games) : x.tag = "game"}}

\* C1: while a crawl cycle replaces a non-empty catalog, a read at any
\* point returns the complete prior snapshot (the new one becomes visible
\* only with the commit that ends the cycle), never an empty or partly
\* written catalog.  Stated for the first cycle, whose prior snapshot is
\* the catalog the service started with.
C1_ReadersSeeWholeSnapshot ==
    (epoch = 1 /\ AnyRunning) => catalog = SeedCatalog

\* C2: a step in which a crawl cycle fails (index status, transport error
\* or an exception of the write) leaves the prior snapshot as the visible
\* catalog.  Stated for the first cycle, as C1.
C2_FailureKeepsPriorSnapshot ==
    [][ \A t \in Triggers :
          ( /\ epoch = 1
            /\ Running(t)
            /\ cyc'[t].pc = "idle"
            /\ raised' \in {"Not status code 200", "transport", "write"} )
          => catalog' = SeedCatalog ]_vars

\* C3: at most one crawl cycle is executing at any time, whichever triggers
\* fire and whenever they fire.
C3_OneCycleAtATime == Cardinality({t \in Triggers : Running(t)}) <= 1

\* a trigger fired during a running cycle and was turned away
C3_Witness == AnyRunning /\ raised = "TransactionError"

\* C4: the commit that ends a successful cycle publishes exactly the games
\* whose parse produced a record in this cycle, each created once, and
\* nothing created by an earlier cycle.
C4_CatalogIsExactlyAccepted ==
    [][ \A t \in Triggers :
          (cyc[t].pc = "commit" /\ cyc'[t].pc = "idle")
          => /\ GameIdsIn(catalog') = Accepted(t)
             /\ Range(cyc[t].written) = Accepted(t)
             /\ Len(cyc[t].written) = Cardinality(Accepted(t))
             /\ \A r \in catalog' : r.ep = epoch
             /\ \A r \in catalog' : r.k \in {"game", "version", "review"}
                                      => r.id \in Accepted(t) ]_vars

\* a cycle replaced a catalog that held games by a different set of games
C4_Witness ==
    /\ ~AnyRunning
    /\ raised = "none"
    /\ epoch >= 1
    /\ GameIdsIn(SeedCatalog) # {}
    /\ GameIdsIn(catalog) # {}
    /\ GameIdsIn(catalog) # GameIdsIn(SeedCatalog)
    /\ \E r \in catalog : r.k = "review"

SelectedIds(t) == {l.game_id : l \in Range(cyc[t].all_links)}

\* the page reaches the byline, which has no hyperlink and names no author
\* among the rows
Unresolvable(page, rows) ==
    page.title /\ page.links = <<>> /\ AuthorIdByName(rows, page.text) = 0

\* C5: a game whose byline has no hyperlink and whose slug matches no
\* fetched Author entry parses to no record and is not written, it does not
\* end the cycle, and every game that parsed to a record is written.
C5_UnresolvedAuthorSkipsOnlyThatGame ==
    [][ \A t \in Triggers :
          /\ (cyc[t].pc = "fetch" /\ cyc'[t].pc = "write")
             => \A g \in SelectedIds(t) :
                   Unresolvable(ResultOf(t, g, "game").page, session.rows)
                   => \A i \in DOMAIN cyc'[t].games :
                         cyc'[t].games[i].tag = "game" => cyc'[t].games[i].id # g
          /\ ( /\ cyc[t].pc = "fetch"
               /\ \A k \in DOMAIN cyc[t].tasks : cyc[t].tasks[k] = "done"
               /\ cyc'[t].pc = "idle" )
             => \E g \in SelectedIds(t) :
                   ~Unresolvable(ResultOf(t, g, "game").page, session.rows)
          /\ (cyc[t].pc = "write" /\ cyc'[t].pc = "commit")
             => GameIdsIn(session'.rows) = Accepted(t)
          /\ (cyc[t].pc = "commit" /\ cyc'[t].pc = "idle")
             => GameIdsIn(catalog') = Accepted(t) ]_vars

\* an unresolvable game was skipped and another game of the cycle is written
C5_Witness ==
    \E t \in Triggers :
        /\ cyc[t].pc = "commit"
        /\ \E i \in DOMAIN cyc[t].games : cyc[t].games[i] = None
        /\ Accepted(t) # {}
        /\ Accepted(t) \subseteq GameIdsIn(session.rows)
        /\ \E g \in SelectedIds(t) :
               /\ ResultOf(t, g, "game").page = TextPage
               /\ g \notin GameIdsIn(session.rows)

\* C6: every record parse_game_page produces has a non-empty authors map.
C6_RecordHasAuthors ==
    (ret.fn = "parse" /\ ret.game.tag = "game") => ret.game.authors # {}

Discovered == {ParseInt(u) : u \in Range(arg.game_links)}

Fetched == {l.game_id : l \in Range(ret.links)}

\* C7: the games that proceed to fetch are the min(Cap, n) discovered games
\* with the lowest URLs, in ascending URL order, each with one detail fetch
\* and one reviews fetch.
C7_LowestUrlsUpToCap ==
    ret.fn = "select" =>
        /\ Fetched \subseteq Discovered
        /\ Cardinality(Fetched) = Min(Cap, Cardinality(Discovered))
        /\ \A f \in Fetched : \A d \in Discovered \ Fetched : StrLess(Digits(f), Digits(d))
        /\ Len(ret.links) = 2 * Cardinality(Fetched)
        /\ \A k \in DOMAIN ret.links :
              /\ ret.links[k].typ = (IF k % 2 = 1 THEN "game" ELSE "reviews")
              /\ k % 2 = 0 => ret.links[k].game_id = ret.links[k - 1].game_id
              /\ k >= 3 => StrLess(Digits(ret.links[k - 2].game_id), Digits(ret.links[k].game_id))

\* more games were discovered than the cap lets through
C7_Witness ==
    /\ ret.fn = "select"
    /\ Cardinality(Discovered) > Cap
    /\ Cardinality(Fetched) = Cap
    /\ \E f \in Fetched : \E d \in Discovered \ Fetched : d < f

\* C8: the requests in flight never exceed the pool limit, and the fetch
\* phase ends: every submitted fetch is answered, or the phase is ended by
\* the first failing one.
C8_PoolBoundAndPhaseEnds ==
    /\ [](\A t \in Triggers : InFlight(t) <= PoolLimit)
    /\ \A t \in Triggers : (cyc[t].pc = "fetch") ~> (cyc[t].pc # "fetch")

\* the pool is full while further fetches wait for a connection
C8_Witness ==
    \E t \in Triggers :
        /\ InFlight(t) = PoolLimit
        /\ \E k \in DOMAIN cyc[t].tasks : cyc[t].tasks[k] = "queued"
        /\ \E k \in DOMAIN cyc[t].tasks : cyc[t].tasks[k] = "done"

\* C9: no failure of parsing one game leaves crawl_tfgs.
C9_ParseFailureSkipsGameOnly == raised # "parse"

\* C10: on an otherwise well-formed game, parse_game_page returns a record
\* whatever the review blocks are, and every well-formed block of the page
\* is among its reviews.
C10_MalformedBlockDiscardedAlone ==
    (ret.fn = "parse" /\ arg.html_game = BasePage) =>
        /\ ret.game.tag = "game"
        /\ \A i \in DOMAIN arg.html_reviews :
              WellFormed(arg.html_reviews[i])
              => \E j \in DOMAIN ret.game.reviews :
                    ret.game.reviews[j].author = arg.html_reviews[i].who

\* C11: the reviews of a record are in chronological order, the reverse of
\* the page's newest-first order, and the k-th review of the record has
\* id k-1, also when blocks of the page were discarded.
C11_ReviewsChronologicalDenseIds ==
    (ret.fn = "parse" /\ ret.game.tag = "game") =>
        /\ \A j, k \in DOMAIN ret.game.reviews :
              j < k => ret.game.reviews[j].author > ret.game.reviews[k].author
        /\ \A k \in DOMAIN ret.game.reviews : ret.game.reviews[k].id = k - 1

\* the version the downloads section names for its i-th child: that of the
\* most recent header before it, the record's top-level version when no
\* header precedes it or the header names none
HeaderFor(page, i) ==
    LET hs == {j \in 1..(i - 1) : page.dl[j].name = "center"}
        h == CHOOSE j \in hs : \A m \in hs : m <= j
    IN  IF hs = {} \/ page.dl[h].text = "" THEN page.version ELSE page.dl[h].text

\* C12: for every sequence of version headers and file blocks on an
\* otherwise well-formed page, parse_game_page yields a record, and each
\* file block is listed under the version of the most recent preceding
\* header, or under the top-level version when no header precedes it.
C12_FileBlockUnderCurrentVersion ==
    (ret.fn = "parse" /\ arg.html_game \in DownloadPages) =>
        /\ ret.game.tag = "game"
        /\ \A i \in DOMAIN arg.html_game.dl :
              arg.html_game.dl[i].name = "div"
              => \E e \in ret.game.versions :
                    /\ e[1] = HeaderFor(arg.html_game, i)
                    /\ arg.html_game.dl[i].text \in Range(e[2])

====
